---- MODULE Spec2Model ----
(***************************************************************************)
(* KVOpt: an in-memory key-value cache with time-to-live eviction, a       *)
(* 128-byte command frame read from stdin, a thread pool running           *)
(* invalidation sweeps, and whole-file persistence to data/cache.json.     *)
(*                                                                         *)
(* Byte arrays are modelled field by field.  A 63-byte key is one value of *)
(* Keys, 0 being the all-zero key.  A 64-byte raw value is the record      *)
(* [payload, ts, off] of its byte ranges [0,56), [56,62) and [62,64): the  *)
(* payload, the 6-byte big-endian timestamp and the 2-byte big-endian      *)
(* expiration offset.  What is written to stdout is the sequence of the    *)
(* fields written, so the 64 bytes of a raw value are <<payload, ts, off>> *)
(* and its first 56 bytes are <<payload>>.                                 *)
(*                                                                         *)
(* Time is the epoch second returned by Utc::now(), scaled to 0..MaxTime.  *)
(***************************************************************************)
EXTENDS Integers, Sequences, FiniteSets, TLC

\* ------------------------------------------------------------ bounds
MaxKey == 2                  \* keys are 0..MaxKey, 0 is the all-zero key
MaxTime == 1                 \* the clock runs from 0 to MaxTime
MaxFrames == 2               \* frames the buffer thread reads in one run
MaxBatch == 2                \* frames in one handle_batch call
MaxQueued == 2               \* sweep jobs waiting in the pool's queue
MaxSweeps == 1               \* sweep jobs the pool runs at the same time
\* DEFAULT_INVALIDATION_THRESHOLD is 100 in the source; scaled down
invalidation_threshold == 1

\* const THREAD_POOL_SIZE
THREAD_POOL_SIZE == 4

Keys == 0..MaxKey
EmptyKey == 0
Payloads == {1, 2}
\* chrono's DateTime::from_timestamp accepts seconds up to its MAX_UTC and
\* returns None beyond; the limit lies beyond every time the clock reaches.
ChronoMaxTs == MaxTime + 1
\* timestamp fields a caller or a file can carry: the epoch, and a 48-bit
\* value chrono rejects
TsVals == {0, ChronoMaxTs + 1}
\* expiration offsets (u16); 0 means never expires
Offs == {0, 1}
Commands == {"G", "I", "R", "H", "X"}     \* "X": any other opcode byte
Workers == 1..THREAD_POOL_SIZE

RawValues == [payload : Payloads, ts : TsVals, off : Offs]
\* the frames read from stdin; the value bytes of a frame that is not an
\* insert are never read, and are one value only
OtherValues == {[payload |-> 2, ts |-> ChronoMaxTs + 1, off |-> 1]}
Frames == [command : {"I"}, key : Keys, value : RawValues]
          \cup [command : Commands \ {"I"}, key : Keys, value : OtherValues]

\* ------------------------------------------------------------ values
\* Option<DateTime>: <<>> is None, <<t>> is Some(t)
None == <<>>
Some(t) == <<t>>

\* i64::from_be_bytes of the 6 timestamp bytes, then
\* DateTime::from_timestamp(ts, 0).unwrap_or_else(Utc::now)
created_at_of(ts, t) == IF ts <= ChronoMaxTs THEN ts ELSE t

\* if expiry_seconds > 0 { Some(created_at + seconds) } else { None }
expires_at_of(created, off) == IF off > 0 THEN Some(created + off) ELSE None

\* if let Some(expires_at) = ... { expires_at <= now }
is_expired(expires_at, t) == expires_at # None /\ expires_at[1] <= t

\* HashMap / DashMap insert and remove on a map held as a function
map_insert(m, k, v) == [x \in DOMAIN m \cup {k} |-> IF x = k THEN v ELSE m[x]]
map_remove(m, k) == [x \in DOMAIN m \ {k} |-> m[x]]
EmptyMap == [x \in {} |-> 0]

\* the lines written to stdout
OutE == [lit |-> "E", data |-> <<>>]
OutG == [lit |-> "G", data |-> <<>>]
OutI == [lit |-> "I", data |-> <<>>]
OutR == [lit |-> "R", data |-> <<>>]
\* handle.write_all(out); handle.write(b"\n"): all 64 bytes of the raw value
OutValue(raw) == [lit |-> "", data |-> <<raw.payload, raw.ts, raw.off>>]

\* ------------------------------------------------------------ persistence codec
\* data/cache.json: whether it exists, its whole 127-byte records
\* (key ++ raw value) in file order, and whether a partial record trails them
NoFile == [exists |-> FALSE, recs |-> <<>>, partial |-> FALSE]
FileOf(recs, partial) == [exists |-> TRUE, recs |-> recs, partial |-> partial]

\* clean_up's per-key filter: the all-zero key, or a raw value whose decoded
\* expiration has passed
save_skips(k, value, t) ==
    \/ k = EmptyKey
    \/ /\ value.off > 0
       /\ created_at_of(value.ts, t) + value.off <= t

\* the keys clean_up writes
persisted(kv, t) == {k \in DOMAIN kv : ~save_skips(k, kv[k], t)}

\* kv.iter() visits the keys in the hash map's order, which is any order
Orders(S) == {s \in [1..Cardinality(S) -> S] : \A i, j \in DOMAIN s : s[i] = s[j] => i = j}
records_of(kv, s) == [i \in DOMAIN s |-> [key |-> s[i], value |-> kv[s[i]]]]

\* how clean_up can go: all of the buffer written; create_dir_all or
\* File::create failed (nothing touched); file.write or file.flush returned
\* Err after File::create truncated the file; or the one call of file.write
\* returned Ok(n) with n short of the buffer, which clean_up takes as success
SaveOutcomes == {"ok", "create_err", "write_err", "short"}
\* the outcomes with which clean_up returns Ok(())
SaveOk == {"ok", "short"}

\* the files a short write of the records leaves: fewer whole records, with
\* or without a part of the next
short_files(recs) ==
    {FileOf(SubSeq(recs, 1, n), partial) : n \in 0..(Len(recs) - 1), partial \in BOOLEAN}
    \ {FileOf(<<>>, FALSE)}

\* a map, and the whole records of a file, as sets of (key, raw value) pairs
pairs(m) == {<<k, m[k]>> : k \in DOMAIN m}
file_pairs(f) == {<<f.recs[i].key, f.recs[i].value>> : i \in DOMAIN f.recs}

\* the entry load builds from a raw value
load_entry(value, t) ==
    LET created == created_at_of(value.ts, t)
    IN [value |-> value.payload, expires_at |-> expires_at_of(created, value.off)]

\* a loop that skips expired records only
load_skips_expired_only(r, t) == is_expired(load_entry(r.value, t).expires_at, t)

\* load's two `continue`s
load_skips(r, t) ==
    \/ r.key = EmptyKey
    \/ is_expired(load_entry(r.value, t).expires_at, t)

\* a loop in which the earlier record of a key wins
RECURSIVE load_chunks_first_wins(_, _, _)
load_chunks_first_wins(recs, m, t) ==
    IF recs = <<>> THEN m
    ELSE LET r == Head(recs)
             rest == load_chunks_first_wins(Tail(recs), m, t)
         IN IF load_skips(r, t) THEN rest
            ELSE [vals |-> map_insert(rest.vals, r.key, r.value),
                  entries |-> map_insert(rest.entries, r.key, load_entry(r.value, t))]

\* the loop over buf.chunks_exact(127), later records overwriting earlier ones
RECURSIVE load_chunks(_, _, _)
load_chunks(recs, m, t) ==
    IF recs = <<>> THEN m
    ELSE LET r == Head(recs)
         IN IF load_skips(r, t) THEN load_chunks(Tail(recs), m, t)
            ELSE load_chunks(Tail(recs),
                             [vals |-> map_insert(m.vals, r.key, r.value),
                              entries |-> map_insert(m.entries, r.key, load_entry(r.value, t))],
                             t)

\* ------------------------------------------------------------ state
VARIABLES
    vals,                    \* Cache.vals: key -> raw value
    entries,                 \* Cache.entries: key -> CacheEntry, less created_at,
                             \* which is written and never read
    save_flag,               \* Cache.save_flag
    should_exit,             \* Cache.should_exit
    ops_since_invalidation,  \* Cache.ops_since_invalidation
    file,                    \* data/cache.json
    now,                     \* Utc::now()
    out,                     \* what the frame in hand has written to stdout
    main_pc,                 \* main: "load", then "run"
    cache_mutex,             \* the Mutex<Cache>: "free", "reader" or "signal"
    vals_lock,               \* the RwLock of vals: "free" or write-held by "reader"
    reader_pc,               \* the buffer thread's position
    input,                   \* the frame the buffer thread is handling
    in_batch,                \* handle_in was called by handle_batch
    batch_left,              \* frames of the batch still to handle
    queued,                  \* sweep jobs waiting in the thread pool's queue
    pool,                    \* the pool's workers: [pc, now, todo, marked]
    signal_pc,               \* the signal thread's position
    frames,                  \* frames read so far
    timestamp,               \* the I arm's `timestamp`
    exited,                  \* std::process::exit was called
    acked,                   \* history: key -> what the last "I\n" for it stored
    close_result,            \* history: how handle_close's clean_up returned, or "none"
    swept,                   \* history: the maps when an undisturbed sweep began
    results,                 \* handle_batch's `results`: how many outcomes it holds
    load_err,                \* main: cache.load() returned Err
    save_result,             \* history: how the clean_up just run returned, or "none"
    prev_sweep,              \* history: the undisturbed sweep that ended last, no
                             \* frame read since: its now and the keys it removed
    started,                 \* run_tasks: the bool under the condvar's mutex
    tasks_pc,                \* tasks_thread: "wait" in looped_thread, or "sleep"
    synced,                  \* history: the (key, raw value) pairs load kept, or
                             \* the last clean_up that returned Ok left in the file
    saving                   \* clean_up run step by step: None, or the keys
                             \* kv.iter() has still to visit, its `buffer`, and
                             \* (history) vals as it was when the lock was taken

vars == <<vals, entries, save_flag, should_exit, ops_since_invalidation, file, now,
          out, main_pc, cache_mutex, vals_lock, reader_pc, input, in_batch,
          batch_left, queued, pool, signal_pc, frames, timestamp, exited, acked,
          close_result, swept, results, load_err, save_result, prev_sweep,
          started, tasks_pc, synced, saving>>

store_vars == <<vals, entries>>
reader_vars == <<reader_pc, input, in_batch, batch_left, out, vals_lock>>
signal_vars == <<signal_pc, should_exit>>
pool_vars == <<queued, pool>>
sys_vars == <<timestamp, exited, close_result, frames>>

IdleWorker == [pc |-> "idle", now |-> 0, todo |-> {}, marked |-> <<>>]

\* raw values and records for the files below
Raw(p, ts, off) == [payload |-> p, ts |-> ts, off |-> off]
Rec(k, value) == [key |-> k, value |-> value]
NoInput == [command |-> "X", key |-> EmptyKey, value |-> Raw(1, 0, 0)]

\* the files the process can find at startup: none, an empty one, one that is
\* a partial record only, and files whose records carry the all-zero key, an
\* expiration long past, the same key twice, and a trailing partial record
InitFiles ==
    { NoFile,
      FileOf(<<>>, FALSE),
      FileOf(<<>>, TRUE),
      FileOf(<<Rec(EmptyKey, Raw(1, 0, 0)), Rec(1, Raw(1, ChronoMaxTs + 1, 1))>>, FALSE),
      FileOf(<<Rec(1, Raw(2, 0, 1)), Rec(MaxKey, Raw(1, 0, 0))>>, TRUE),
      FileOf(<<Rec(1, Raw(1, 0, 0)), Rec(1, Raw(2, ChronoMaxTs + 1, 0))>>, FALSE) }

\* Cache::new
Init ==
    /\ vals = EmptyMap
    /\ entries = EmptyMap
    /\ save_flag = FALSE
    /\ should_exit = FALSE
    /\ ops_since_invalidation = 0
    /\ file \in InitFiles
    /\ now = 0
    /\ out = <<>>
    /\ main_pc = "load"
    /\ cache_mutex = "free"
    /\ vals_lock = "free"
    /\ reader_pc = "read"
    /\ input = NoInput
    /\ in_batch = FALSE
    /\ batch_left = 0
    /\ queued = 0
    /\ pool = [w \in Workers |-> IdleWorker]
    /\ signal_pc = 0
    /\ frames = 0
    /\ timestamp = 0
    /\ exited = FALSE
    /\ acked = EmptyMap
    /\ close_result = "none"
    /\ swept = None
    /\ results = 0
    /\ load_err = FALSE
    /\ save_result = "none"
    /\ prev_sweep = None
    /\ started = FALSE
    /\ tasks_pc = "wait"
    /\ synced = {}
    /\ saving = None

running == main_pc = "run" /\ ~exited

\* ------------------------------------------------------------ startup
\* Cache::load's result on the maps: nothing for an absent, unreadable or
\* empty file, else the maps built from the whole records; Err when
\* File::open or read_to_end failed
load_result(f, t, readable) ==
    IF ~f.exists \/ ~readable \/ (f.recs = <<>> /\ ~f.partial)
    THEN [replaced |-> FALSE, vals |-> EmptyMap, entries |-> EmptyMap,
          err |-> f.exists /\ ~readable]
    ELSE LET m == load_chunks(f.recs, [vals |-> EmptyMap, entries |-> EmptyMap], t)
         IN [replaced |-> TRUE, vals |-> m.vals, entries |-> m.entries, err |-> FALSE]

\* main: cache.load(), then setup_signal_handlers and run_tasks.  A load that
\* got past the empty-file return ends with invalidate_cache().
load ==
    /\ main_pc = "load"
    /\ \E readable \in BOOLEAN :
         LET r == load_result(file, now, readable)
         IN /\ vals' = r.vals
            /\ entries' = r.entries
            /\ queued' = IF r.replaced THEN queued + 1 ELSE queued
            /\ load_err' = r.err
            /\ synced' = pairs(r.vals)
    /\ main_pc' = "run"
    /\ UNCHANGED <<save_flag, should_exit, ops_since_invalidation, file, now, out,
                   cache_mutex, vals_lock, reader_pc, input, in_batch, batch_left,
                   pool, signal_pc, sys_vars, acked, swept>>
    /\ UNCHANGED <<results, save_result, prev_sweep, started, tasks_pc, saving>>

\* the clock
Tick ==
    /\ ~exited
    /\ now < MaxTime
    /\ now' = now + 1
    /\ UNCHANGED <<vals, entries, save_flag, should_exit, ops_since_invalidation,
                   file, out, main_pc, cache_mutex, vals_lock, reader_pc, input,
                   in_batch, batch_left, queued, pool, signal_pc, sys_vars, acked, swept>>
    /\ UNCHANGED <<results, load_err, save_result, prev_sweep, started, tasks_pc, synced, saving>>

\* a clean_up that clears the save flag however it went
clean_up_clears_flag(outcome, order) ==
    /\ CASE outcome = "ok" -> file' = FileOf(records_of(vals, order), FALSE)
         [] outcome = "write_err" -> file' = FileOf(<<>>, FALSE)
         [] outcome = "short" -> file' \in short_files(records_of(vals, order))
         [] OTHER -> file' = file
    /\ save_flag' = FALSE

\* ------------------------------------------------------------ clean_up
\* Cache::clean_up as one step: the file it leaves and the save flag
clean_up(outcome, order) ==
    /\ CASE outcome = "ok" -> file' = FileOf(records_of(vals, order), FALSE)
         [] outcome = "write_err" -> file' = FileOf(<<>>, FALSE)
         [] outcome = "short" -> file' \in short_files(records_of(vals, order))
         [] OTHER -> file' = file
    /\ save_flag' = IF outcome \in SaveOk THEN FALSE ELSE save_flag

\* ------------------------------------------------------------ the buffer thread
\* a handle_batch that stops after its first frame
handle_in_return_ends ==
    /\ reader_pc' = "done"
    /\ cache_mutex' = cache_mutex
    /\ input' = NoInput
    /\ results' = IF in_batch THEN results + 1 ELSE results

\* handle_in returns: to handle_batch's loop, or to the buffer thread's loop
handle_in_return ==
    /\ reader_pc' = IF in_batch THEN "batch" ELSE "done"
    /\ cache_mutex' = cache_mutex
    /\ input' = NoInput
    /\ results' = IF in_batch THEN results + 1 ELSE results

\* the counter test at the top of handle_in: fetch_add returns the old value
sweep_due(ops) == ops >= invalidation_threshold

\* handle_in's prologue: count the call and, when due, queue a sweep and
\* reset the counter
prologue ==
    /\ IF sweep_due(ops_since_invalidation)
       THEN /\ queued < MaxQueued
            /\ queued' = queued + 1
            /\ ops_since_invalidation' = 0
       ELSE /\ queued' = queued
            /\ ops_since_invalidation' = ops_since_invalidation + 1
    /\ out' = <<>>
    /\ save_result' = "none"
    /\ frames < MaxFrames
    /\ frames' = frames + 1

\* the buffer thread read a frame, locked the cache and entered handle_in
read_frame ==
    /\ running
    /\ reader_pc = "read"
    /\ cache_mutex = "free"
    /\ cache_mutex' = "reader"
    /\ swept' = None
    /\ prev_sweep' = None
    /\ \E f \in Frames : input' = f
    /\ prologue
    /\ reader_pc' = "call"
    /\ in_batch' = FALSE
    /\ UNCHANGED <<vals, entries, save_flag, should_exit, file, now, main_pc,
                   vals_lock, batch_left, pool, signal_pc, timestamp, exited, close_result, acked>>
    /\ UNCHANGED <<results, load_err, started, tasks_pc, synced, saving>>

\* handle_batch is entered with a slice of 0..MaxBatch frames
batch_begin ==
    /\ running
    /\ reader_pc = "read"
    /\ cache_mutex = "free"
    /\ cache_mutex' = "reader"
    /\ swept' = None
    /\ prev_sweep' = None
    /\ results' = 0
    /\ \E n \in 0..MaxBatch : batch_left' = n
    /\ in_batch' = TRUE
    /\ reader_pc' = "batch"
    /\ UNCHANGED <<vals, entries, save_flag, should_exit, ops_since_invalidation,
                   file, now, out, main_pc, vals_lock, input, queued, pool,
                   signal_pc, sys_vars, acked>>
    /\ UNCHANGED <<load_err, save_result, started, tasks_pc, synced, saving>>

\* handle_batch's loop calls handle_in on the next frame
batch_next ==
    /\ running
    /\ reader_pc = "batch"
    /\ batch_left > 0
    /\ batch_left' = batch_left - 1
    /\ \E f \in Frames : input' = f
    /\ prologue
    /\ reader_pc' = "call"
    /\ UNCHANGED <<vals, entries, save_flag, should_exit, file, now, main_pc,
                   cache_mutex, vals_lock, in_batch, pool, signal_pc, timestamp, exited, close_result, acked, swept>>
    /\ UNCHANGED <<results, load_err, prev_sweep, started, tasks_pc, synced, saving>>

\* a handle_batch that leaves the save flag as its frames left it
batch_end_flag_kept ==
    /\ running
    /\ reader_pc = "batch"
    /\ batch_left = 0
    /\ in_batch' = FALSE
    /\ reader_pc' = "done"
    /\ UNCHANGED <<vals, entries, save_flag, should_exit, ops_since_invalidation, file,
                   now, out, main_pc, cache_mutex, vals_lock, input, batch_left, queued,
                   pool, signal_pc, sys_vars, acked, swept>>
    /\ UNCHANGED <<results, load_err, save_result, prev_sweep, started, tasks_pc, synced, saving>>

\* handle_batch after its loop: the save flag is always set
batch_end ==
    /\ running
    /\ reader_pc = "batch"
    /\ batch_left = 0
    /\ save_flag' = TRUE
    /\ in_batch' = FALSE
    /\ reader_pc' = "done"
    /\ UNCHANGED <<vals, entries, should_exit, ops_since_invalidation, file, now,
                   out, main_pc, cache_mutex, vals_lock, input, batch_left, queued, pool,
                   signal_pc, sys_vars, acked, swept>>
    /\ UNCHANGED <<results, load_err, save_result, prev_sweep, started, tasks_pc, synced, saving>>

\* the end of the buffer thread's loop body: the frame and the cache guard are
\* dropped
reader_done ==
    /\ running
    /\ reader_pc = "done"
    /\ reader_pc' = "read"
    /\ cache_mutex' = "free"
    /\ out' = <<>>
    /\ results' = 0
    /\ save_result' = "none"
    /\ UNCHANGED <<vals, entries, save_flag, should_exit, ops_since_invalidation,
                   file, now, main_pc, vals_lock, input, in_batch, batch_left, queued,
                   pool, signal_pc, sys_vars, acked, swept>>
    /\ started' = TRUE
    /\ UNCHANGED <<load_err, prev_sweep, tasks_pc, synced, saving>>

\* a check that covers b'G' only
rejects_get_only(f) == f.key = EmptyKey /\ f.command = "G"

\* is_empty_key && (command == b'I' || command == b'G')
rejects(f) == f.key = EmptyKey /\ f.command \in {"I", "G"}

\* the empty-key rejection: "E\n" and return
reject_empty_key ==
    /\ running
    /\ reader_pc = "call"
    /\ rejects(input)
    /\ out' = Append(out, OutE)
    /\ handle_in_return
    /\ UNCHANGED <<vals, entries, save_flag, should_exit, ops_since_invalidation,
                   file, now, main_pc, vals_lock, in_batch, batch_left,
                   queued, pool, signal_pc, sys_vars, acked, swept>>
    /\ UNCHANGED <<load_err, save_result, prev_sweep, started, tasks_pc, synced, saving>>

\* what the G arm writes for the key
get_output(kv, k) == IF k \in DOMAIN kv THEN OutValue(kv[k]) ELSE OutG

\* b'G': under the read lock of vals
arm_G ==
    /\ running
    /\ reader_pc = "call"
    /\ ~rejects(input)
    /\ input.command = "G"
    /\ out' = Append(out, get_output(vals, input.key))
    /\ handle_in_return
    /\ UNCHANGED <<vals, entries, save_flag, should_exit, ops_since_invalidation,
                   file, now, main_pc, vals_lock, in_batch, batch_left,
                   queued, pool, signal_pc, sys_vars, acked, swept>>
    /\ UNCHANGED <<load_err, save_result, prev_sweep, started, tasks_pc, synced, saving>>

\* an R arm that leaves the entry map alone
keep_entries(e, k) == e

\* b'R': self.entries.remove(&key)
remove_entries(e, k) == map_remove(e, k)

\* b'R': the write lock of vals is taken, then the entry removed
arm_R_entries ==
    /\ running
    /\ reader_pc = "call"
    /\ input.command = "R"
    /\ vals_lock = "free"
    /\ vals_lock' = "reader"
    /\ entries' = remove_entries(entries, input.key)
    /\ reader_pc' = "R_vals"
    /\ UNCHANGED <<vals, save_flag, should_exit, ops_since_invalidation, file, now,
                   out, main_pc, cache_mutex, input, in_batch, batch_left, queued,
                   pool, signal_pc, sys_vars, acked, swept>>
    /\ UNCHANGED <<results, load_err, save_result, prev_sweep, started, tasks_pc, synced, saving>>

\* b'R': kv.remove(&key), "R\n", the save flag, and the locks dropped
arm_R_vals ==
    /\ running
    /\ reader_pc = "R_vals"
    /\ save_flag' = TRUE
    /\ vals' = map_remove(vals, input.key)
    /\ out' = Append(out, OutR)
    /\ vals_lock' = "free"
    /\ acked' = map_remove(acked, input.key)
    /\ handle_in_return
    /\ UNCHANGED <<entries, should_exit, ops_since_invalidation, file, now,
                   main_pc, in_batch, batch_left, queued, pool, signal_pc,
                   sys_vars, swept>>
    /\ UNCHANGED <<load_err, save_result, prev_sweep, started, tasks_pc, synced, saving>>

\* b'I': the CacheEntry, stamped with Utc::now()
insert_entry(value, t) ==
    [value |-> value.payload, expires_at |-> expires_at_of(t, value.off)]

\* b'I': the raw value stored: the frame's 64 value bytes as they came
insert_value(value, t) == value

\* b'I': the write lock of vals is taken, the entry built with
\* timestamp = Utc::now() and inserted
arm_I_entries ==
    /\ running
    /\ reader_pc = "call"
    /\ ~rejects(input)
    /\ input.command = "I"
    /\ vals_lock = "free"
    /\ vals_lock' = "reader"
    /\ timestamp' = now
    /\ entries' = map_insert(entries, input.key, insert_entry(input.value, now))
    /\ reader_pc' = "I_vals"
    /\ UNCHANGED <<vals, save_flag, should_exit, ops_since_invalidation, file, now,
                   out, main_pc, cache_mutex, input, in_batch, batch_left, queued,
                   pool, signal_pc, exited, close_result, frames, acked, swept>>
    /\ UNCHANGED <<results, load_err, save_result, prev_sweep, started, tasks_pc, synced, saving>>

\* b'I': kv.insert(key, value), "I\n", the save flag, and the locks dropped
arm_I_vals ==
    /\ running
    /\ reader_pc = "I_vals"
    /\ vals' = map_insert(vals, input.key, insert_value(input.value, timestamp))
    /\ out' = Append(out, OutI)
    /\ save_flag' = TRUE
    /\ vals_lock' = "free"
    /\ timestamp' = 0
    /\ acked' = map_insert(acked, input.key,
                           [value |-> input.value,
                            expires_at |-> insert_entry(input.value, timestamp).expires_at])
    /\ handle_in_return
    /\ UNCHANGED <<entries, should_exit, ops_since_invalidation, file, now,
                   main_pc, in_batch, batch_left, queued, pool, signal_pc,
                   exited, close_result, frames, swept>>
    /\ UNCHANGED <<load_err, save_result, prev_sweep, started, tasks_pc, synced, saving>>

\* an H arm that does not save
arm_H_no_save ==
    /\ running
    /\ reader_pc = "call"
    /\ input.command = "H"
    /\ handle_in_return
    /\ UNCHANGED <<vals, entries, save_flag, file, should_exit, ops_since_invalidation,
                   now, out, main_pc, vals_lock, in_batch, batch_left, queued, pool,
                   signal_pc, sys_vars, acked, swept>>
    /\ UNCHANGED <<load_err, save_result, prev_sweep, started, tasks_pc, synced, saving>>

\* b'H': clean_up, its error only printed
arm_H ==
    /\ running
    /\ reader_pc = "call"
    /\ input.command = "H"
    /\ \E outcome \in SaveOutcomes, order \in Orders(persisted(vals, now)) :
         /\ clean_up(outcome, order)
         /\ save_result' = outcome
         /\ synced' = IF outcome \in SaveOk THEN file_pairs(file') ELSE synced
    /\ handle_in_return
    /\ UNCHANGED <<vals, entries, should_exit, ops_since_invalidation, now, out,
                   main_pc, vals_lock, in_batch, batch_left, queued, pool,
                   signal_pc, sys_vars, acked, swept>>
    /\ UNCHANGED <<load_err, prev_sweep, started, tasks_pc, saving>>

\* ---- clean_up step by step, as the H arm runs it beside the pool
\* create_dir_all and File::create: an Err returns at once; Ok leaves the file
\* truncated
arm_H_create ==
    /\ running
    /\ reader_pc = "call"
    /\ input.command = "H"
    /\ \E created \in BOOLEAN :
         IF created
         THEN /\ file' = FileOf(<<>>, FALSE)
              /\ reader_pc' = "H_lock"
              /\ UNCHANGED <<input, results, save_result, cache_mutex>>
         ELSE /\ file' = file
              /\ save_result' = "create_err"
              /\ handle_in_return
    /\ UNCHANGED <<vals, entries, save_flag, should_exit, ops_since_invalidation, now,
                   out, main_pc, vals_lock, in_batch, batch_left, queued, pool,
                   signal_pc, sys_vars, acked, swept>>
    /\ UNCHANGED <<load_err, prev_sweep, started, tasks_pc, synced, saving>>

\* let kv = self.vals.read().unwrap(): waits while a writer holds the lock
arm_H_lock ==
    /\ running
    /\ reader_pc = "H_lock"
    /\ vals_lock = "free"
    /\ vals_lock' = "save"
    /\ saving' = [todo |-> DOMAIN vals, buffer |-> <<>>, snap |-> vals]
    /\ reader_pc' = "H_iter"
    /\ UNCHANGED <<vals, entries, save_flag, should_exit, ops_since_invalidation, file,
                   now, out, main_pc, cache_mutex, input, in_batch, batch_left, queued,
                   pool, signal_pc, sys_vars, acked, swept>>
    /\ UNCHANGED <<results, load_err, save_result, prev_sweep, started, tasks_pc, synced>>

\* the keys kv.iter() has still to visit
unvisited == saving.todo \cap DOMAIN vals

\* one turn of the loop over kv.iter(): the next key, in the hash map's order,
\* is skipped or appended with its raw value to `buffer`
arm_H_iter ==
    /\ running
    /\ reader_pc = "H_iter"
    /\ \E k \in unvisited :
         saving' = [saving EXCEPT
                      !.todo = saving.todo \ {k},
                      !.buffer = IF save_skips(k, vals[k], now) THEN saving.buffer
                                 ELSE Append(saving.buffer, Rec(k, vals[k]))]
    /\ UNCHANGED <<vals, entries, save_flag, should_exit, ops_since_invalidation, file,
                   now, out, main_pc, cache_mutex, vals_lock, reader_pc, input, in_batch,
                   batch_left, queued, pool, signal_pc, sys_vars, acked, swept>>
    /\ UNCHANGED <<results, load_err, save_result, prev_sweep, started, tasks_pc, synced>>

\* the outcomes of file.write and file.flush
WriteOutcomes == SaveOutcomes \ {"create_err"}

\* after the loop: file.write(&buffer), file.flush(), the save flag cleared,
\* drop(kv), Ok; or the Err of write or flush, the guard dropped on return
arm_H_write ==
    /\ running
    /\ reader_pc = "H_iter"
    /\ unvisited = {}
    /\ \E outcome \in WriteOutcomes :
         /\ CASE outcome = "ok" -> file' = FileOf(saving.buffer, FALSE)
              [] outcome = "short" -> file' \in short_files(saving.buffer)
              [] OTHER -> file' = FileOf(<<>>, FALSE)
         /\ save_flag' = IF outcome \in SaveOk THEN FALSE ELSE save_flag
         /\ save_result' = outcome
         /\ synced' = IF outcome \in SaveOk THEN file_pairs(file') ELSE synced
    /\ vals_lock' = "free"
    /\ saving' = None
    /\ handle_in_return
    /\ UNCHANGED <<vals, entries, should_exit, ops_since_invalidation, now, out,
                   main_pc, in_batch, batch_left, queued, pool, signal_pc, sys_vars,
                   acked, swept>>
    /\ UNCHANGED <<load_err, prev_sweep, started, tasks_pc>>

\* a default arm that marks the Store as changed
arm_other_sets_flag ==
    /\ running
    /\ reader_pc = "call"
    /\ input.command = "X"
    /\ save_flag' = TRUE
    /\ handle_in_return
    /\ UNCHANGED <<vals, entries, should_exit, ops_since_invalidation,
                   file, now, out, main_pc, vals_lock, in_batch, batch_left,
                   queued, pool, signal_pc, sys_vars, acked, swept>>
    /\ UNCHANGED <<load_err, save_result, prev_sweep, started, tasks_pc, synced, saving>>

\* any other opcode: nothing
arm_other ==
    /\ running
    /\ reader_pc = "call"
    /\ input.command = "X"
    /\ handle_in_return
    /\ UNCHANGED <<vals, entries, save_flag, should_exit, ops_since_invalidation,
                   file, now, out, main_pc, vals_lock, in_batch, batch_left,
                   queued, pool, signal_pc, sys_vars, acked, swept>>
    /\ UNCHANGED <<load_err, save_result, prev_sweep, started, tasks_pc, synced, saving>>

\* ------------------------------------------------------------ the thread pool
\* a scan whose test is expires_at < now
sweep_marks_strict(entry, t) ==
    entry.expires_at # None /\ entry.expires_at[1] < t

\* the scan's test: if let Some(expires_at) = ... { if expires_at <= now
sweep_marks(entry, t) == is_expired(entry.expires_at, t)

\* the pool hands a queued job to an idle worker; the job reads Utc::now()
\* and starts entries.iter()
sweep_start(w) ==
    /\ running
    /\ queued > 0
    /\ pool[w].pc = "idle"
    /\ \A v \in Workers : v < w => pool[v].pc # "idle"
    /\ Cardinality({v \in Workers : pool[v].pc # "idle"}) < MaxSweeps
    /\ queued' = queued - 1
    /\ pool' = [pool EXCEPT ![w] = [pc |-> "scan", now |-> now, todo |-> Keys,
                                    marked |-> <<>>]]
    /\ swept' = IF reader_pc = "read" /\ \A v \in Workers : pool[v].pc = "idle"
                THEN [vals |-> vals, entries |-> entries]
                ELSE None
    /\ UNCHANGED <<vals, entries, save_flag, should_exit, ops_since_invalidation,
                   file, now, out, main_pc, cache_mutex, vals_lock, reader_pc,
                   input, in_batch, batch_left, signal_pc, sys_vars, acked>>
    /\ UNCHANGED <<results, load_err, save_result, prev_sweep, started, tasks_pc, synced, saving>>

\* the pool as threadpool::ThreadPool runs it: a queued job goes to an idle
\* worker whatever the other workers are doing
pool_start(w) ==
    /\ running
    /\ queued > 0
    /\ pool[w].pc = "idle"
    /\ \A v \in Workers : v < w => pool[v].pc # "idle"
    /\ queued' = queued - 1
    /\ pool' = [pool EXCEPT ![w] = [pc |-> "scan", now |-> now, todo |-> Keys,
                                    marked |-> <<>>]]
    /\ swept' = IF reader_pc = "read" /\ \A v \in Workers : pool[v].pc = "idle"
                THEN [vals |-> vals, entries |-> entries]
                ELSE None
    /\ UNCHANGED <<vals, entries, save_flag, should_exit, ops_since_invalidation,
                   file, now, out, main_pc, cache_mutex, vals_lock, reader_pc,
                   input, in_batch, batch_left, signal_pc, sys_vars, acked>>
    /\ UNCHANGED <<results, load_err, save_result, prev_sweep, started, tasks_pc, synced, saving>>

\* a job that ends with what it has done so far
after_scan_gives_up(w, marked) == IdleWorker

\* a worker whose scan visited the last slot, or whose removal loop took
\* the key before `marked`: on to the removals, or the job is over
after_scan(w, marked) ==
    IF marked = <<>> THEN IdleWorker
    ELSE [pc |-> "rm_entries", now |-> pool[w].now, todo |-> {}, marked |-> marked]

\* entries.iter() in the DashMap's order, taken to be ascending: the entries
\* still ahead of the iterator
ahead(w) == pool[w].todo \cap DOMAIN entries

\* the iterator's next(): the next entry is tested, or the scan is over
sweep_scan(w) ==
    /\ running
    /\ pool[w].pc = "scan"
    /\ IF ahead(w) = {}
       THEN /\ pool' = [pool EXCEPT ![w] = after_scan(w, pool[w].marked)]
            /\ swept' = IF pool[w].marked = <<>> THEN None ELSE swept
            /\ prev_sweep' = IF pool[w].marked # <<>> THEN prev_sweep
                              ELSE IF swept = None THEN None
                              ELSE [now |-> pool[w].now, gone |-> {}]
       ELSE LET k == CHOOSE x \in ahead(w) : \A y \in ahead(w) : x <= y
            IN /\ pool' = [pool EXCEPT
                             ![w].todo = {y \in pool[w].todo : y > k},
                             ![w].marked = IF sweep_marks(entries[k], pool[w].now)
                                           THEN Append(pool[w].marked, k)
                                           ELSE pool[w].marked]
               /\ swept' = swept
               /\ prev_sweep' = prev_sweep
    /\ UNCHANGED <<vals, entries, save_flag, should_exit, ops_since_invalidation,
                   file, now, out, main_pc, cache_mutex, vals_lock, reader_pc,
                   input, in_batch, batch_left, queued, signal_pc, sys_vars, acked>>
    /\ UNCHANGED <<results, load_err, save_result, started, tasks_pc, synced, saving>>

\* entries.remove(&key) for the next marked key
sweep_remove_entry(w) ==
    /\ running
    /\ pool[w].pc = "rm_entries"
    /\ entries' = map_remove(entries, Head(pool[w].marked))
    /\ pool' = [pool EXCEPT ![w].pc = "rm_vals"]
    /\ UNCHANGED <<vals, save_flag, should_exit, ops_since_invalidation, file, now,
                   out, main_pc, cache_mutex, vals_lock, reader_pc, input,
                   in_batch, batch_left, queued, signal_pc, sys_vars, acked, swept>>
    /\ UNCHANGED <<results, load_err, save_result, prev_sweep, started, tasks_pc, synced, saving>>

\* a removal that does not wait for the lock of vals
sweep_remove_val_unlocked(w) ==
    /\ running
    /\ pool[w].pc = "rm_vals"
    /\ vals' = map_remove(vals, Head(pool[w].marked))
    /\ pool' = [pool EXCEPT ![w] = after_scan(w, Tail(pool[w].marked))]
    /\ swept' = IF Tail(pool[w].marked) = <<>> THEN None ELSE swept
    /\ prev_sweep' = IF Tail(pool[w].marked) # <<>> THEN prev_sweep
                      ELSE IF swept = None THEN None
                      ELSE [now |-> pool[w].now,
                            gone |-> DOMAIN swept.vals \ DOMAIN vals']
    /\ UNCHANGED <<entries, save_flag, should_exit, ops_since_invalidation, file,
                   now, out, main_pc, cache_mutex, vals_lock, reader_pc, input,
                   in_batch, batch_left, queued, signal_pc, sys_vars, acked>>
    /\ UNCHANGED <<results, load_err, save_result, started, tasks_pc, synced, saving>>

\* vals.write().unwrap().remove(&key): waits for the write lock
sweep_remove_val(w) ==
    /\ running
    /\ pool[w].pc = "rm_vals"
    /\ vals_lock = "free"
    /\ vals' = map_remove(vals, Head(pool[w].marked))
    /\ pool' = [pool EXCEPT ![w] = after_scan(w, Tail(pool[w].marked))]
    /\ swept' = IF Tail(pool[w].marked) = <<>> THEN None ELSE swept
    /\ prev_sweep' = IF Tail(pool[w].marked) # <<>> THEN prev_sweep
                      ELSE IF swept = None THEN None
                      ELSE [now |-> pool[w].now,
                            gone |-> DOMAIN swept.vals \ DOMAIN vals']
    /\ UNCHANGED <<entries, save_flag, should_exit, ops_since_invalidation, file,
                   now, out, main_pc, cache_mutex, vals_lock, reader_pc, input,
                   in_batch, batch_left, queued, signal_pc, sys_vars, acked>>
    /\ UNCHANGED <<results, load_err, save_result, started, tasks_pc, synced, saving>>

\* ------------------------------------------------------------ the signal thread
\* a handler that sets the flag before it saves
handle_close_flag_first == <<"should_exit", "clean_up">>

\* handle_close's statements under the cache guard, in program order
handle_close == <<"clean_up", "should_exit">>

\* SIGINT, SIGHUP or SIGTERM arrived: handle_close takes the cache guard at
\* its first statement and drops it after its last
signal_step ==
    /\ running
    /\ signal_pc < Len(handle_close)
    /\ signal_pc' = signal_pc + 1
    /\ IF signal_pc = 0 THEN cache_mutex = "free" ELSE TRUE
    /\ cache_mutex' = IF signal_pc + 1 = Len(handle_close) THEN "free" ELSE "signal"
    /\ LET step == handle_close[signal_pc + 1]
       IN /\ IF step = "clean_up"
             THEN \E outcome \in SaveOutcomes, order \in Orders(persisted(vals, now)) :
                       /\ clean_up(outcome, order)
                       /\ close_result' = outcome
                       /\ save_result' = outcome
                       /\ synced' = IF outcome \in SaveOk THEN file_pairs(file')
                                     ELSE synced
             ELSE /\ UNCHANGED <<file, save_flag, close_result, synced>>
                  /\ save_result' = "none"
          /\ should_exit' = IF step = "should_exit" THEN TRUE ELSE should_exit
    /\ UNCHANGED <<vals, entries, ops_since_invalidation, now, out, main_pc,
                   vals_lock, reader_pc, input, in_batch, batch_left, queued, pool,
                   timestamp, exited, frames, acked, swept>>
    /\ UNCHANGED <<results, load_err, prev_sweep, started, tasks_pc, saving>>

\* the signal thread after handle_close: std::process::exit(0).  The process
\* and its memory are gone; the file, the clock and the history remain.
signal_exit ==
    /\ running
    /\ signal_pc = Len(handle_close)
    /\ exited' = TRUE
    /\ vals' = EmptyMap
    /\ entries' = EmptyMap
    /\ out' = <<>>
    /\ cache_mutex' = "free"
    /\ vals_lock' = "free"
    /\ reader_pc' = "read"
    /\ input' = NoInput
    /\ in_batch' = FALSE
    /\ batch_left' = 0
    /\ queued' = 0
    /\ pool' = [w \in Workers |-> IdleWorker]
    /\ timestamp' = 0
    /\ swept' = None
    /\ results' = 0
    /\ save_result' = "none"
    /\ prev_sweep' = None
    /\ UNCHANGED <<save_flag, should_exit, ops_since_invalidation, file, now,
                   main_pc, signal_pc, close_result, frames, acked>>
    /\ started' = FALSE
    /\ tasks_pc' = "wait"
    /\ UNCHANGED <<load_err, synced, saving>>

\* ------------------------------------------------------------ the tasks thread
\* run_tasks' invalidate_cache, on the raw values: the timestamp bytes read as
\* an integer with no range check, the offset added whatever it is, and the
\* test current_timestamp > expire_timestamp
tasks_expired(value, t) == t > value.ts + value.off

\* the raw-value map after the two loops of run_tasks' invalidate_cache
tasks_invalidate(kv, t) ==
    [k \in {x \in DOMAIN kv : ~tasks_expired(kv[x], t)} |-> kv[k]]

\* looped_thread: past the condvar once `started` is set, it locks the cache,
\* locks vals and runs invalidate_cache on the raw-value map; tasks_thread
\* joins it and goes to sleep
tasks_sweep ==
    /\ running
    /\ tasks_pc = "wait"
    /\ started
    /\ cache_mutex = "free"
    /\ vals_lock = "free"
    /\ vals' = tasks_invalidate(vals, now)
    /\ tasks_pc' = "sleep"
    /\ swept' = None
    /\ prev_sweep' = None
    /\ UNCHANGED <<entries, save_flag, should_exit, ops_since_invalidation, file, now,
                   out, main_pc, cache_mutex, vals_lock, reader_pc, input, in_batch,
                   batch_left, queued, pool, signal_pc, sys_vars, acked>>
    /\ UNCHANGED <<results, load_err, save_result, started, synced, saving>>

\* tasks_thread: thread::sleep is over, the loop spawns the next looped_thread
tasks_wake ==
    /\ running
    /\ tasks_pc = "sleep"
    /\ tasks_pc' = "wait"
    /\ UNCHANGED <<vals, entries, save_flag, should_exit, ops_since_invalidation,
                   file, now, out, main_pc, cache_mutex, vals_lock, reader_pc, input,
                   in_batch, batch_left, queued, pool, signal_pc, sys_vars, acked, swept>>
    /\ UNCHANGED <<results, load_err, save_result, prev_sweep, started, synced, saving>>

\* looped_thread gets past the condvar: wait_while returns the guard of the
\* mutex around `started`, and `_started` keeps it to the end of the closure
tasks_pass ==
    /\ running
    /\ tasks_pc = "wait"
    /\ started
    /\ tasks_pc' = "cache"
    /\ UNCHANGED <<vals, entries, save_flag, should_exit, ops_since_invalidation,
                   file, now, out, main_pc, cache_mutex, vals_lock, reader_pc, input,
                   in_batch, batch_left, queued, pool, signal_pc, sys_vars, acked, swept>>
    /\ UNCHANGED <<results, load_err, save_result, prev_sweep, started, synced, saving>>

\* looped_thread, the guard of `started` in hand: it locks the cache, locks
\* vals, runs invalidate_cache on the raw-value map and returns, which drops
\* the three guards; tasks_thread joins it and goes to sleep
tasks_run ==
    /\ running
    /\ tasks_pc = "cache"
    /\ cache_mutex = "free"
    /\ vals_lock = "free"
    /\ vals' = tasks_invalidate(vals, now)
    /\ tasks_pc' = "sleep"
    /\ swept' = None
    /\ prev_sweep' = None
    /\ UNCHANGED <<entries, save_flag, should_exit, ops_since_invalidation, file, now,
                   out, main_pc, cache_mutex, vals_lock, reader_pc, input, in_batch,
                   batch_left, queued, pool, signal_pc, sys_vars, acked>>
    /\ UNCHANGED <<results, load_err, save_result, started, synced, saving>>

\* the buffer thread after handle_in, the cache guard still in hand: it
\* locks the mutex around `started`, sets the bool, notifies, and the end of
\* the loop body drops both guards
reader_notify ==
    /\ tasks_pc # "cache"
    /\ reader_done

\* ------------------------------------------------------------ specifications
\* the whole process
Next ==
    \/ load
    \/ Tick
    \/ read_frame
    \/ batch_begin
    \/ batch_next
    \/ batch_end
    \/ reader_done
    \/ reject_empty_key
    \/ arm_G
    \/ arm_R_entries
    \/ arm_R_vals
    \/ arm_I_entries
    \/ arm_I_vals
    \/ arm_H
    \/ arm_other
    \/ \E w \in Workers : sweep_start(w)
    \/ \E w \in Workers : sweep_scan(w)
    \/ \E w \in Workers : sweep_remove_entry(w)
    \/ \E w \in Workers : sweep_remove_val(w)
    \/ signal_step
    \/ signal_exit
    \/ tasks_sweep
    \/ tasks_wake

Spec == Init /\ [][Next]_vars

\* The store: startup, the clock, the buffer thread and the pool.  The signal
\* thread is left out; its steps write the file, save_flag, should_exit and the
\* cache guard only.
NextStore ==
    \/ load
    \/ Tick
    \/ read_frame
    \/ batch_begin
    \/ batch_next
    \/ batch_end
    \/ reader_done
    \/ reject_empty_key
    \/ arm_G
    \/ arm_R_entries
    \/ arm_R_vals
    \/ arm_I_entries
    \/ arm_I_vals
    \/ arm_H
    \/ arm_other
    \/ \E w \in Workers : sweep_start(w)
    \/ \E w \in Workers : sweep_scan(w)
    \/ \E w \in Workers : sweep_remove_entry(w)
    \/ \E w \in Workers : sweep_remove_val(w)

SpecStore == Init /\ [][NextStore]_vars

\* Shutdown: startup, the clock, the buffer thread and the signal thread.  The
\* pool is left out: queued sweeps do not get to run before the exit.
NextShutdown ==
    \/ load
    \/ Tick
    \/ read_frame
    \/ batch_begin
    \/ batch_next
    \/ batch_end
    \/ reader_done
    \/ reject_empty_key
    \/ arm_G
    \/ arm_R_entries
    \/ arm_R_vals
    \/ arm_I_entries
    \/ arm_I_vals
    \/ arm_H
    \/ arm_other
    \/ signal_step
    \/ signal_exit

SpecShutdown == Init /\ [][NextShutdown]_vars

\* A save beside the pool: startup, the clock, the buffer thread reading
\* single frames, with the clean_up of a Halt frame run step by step, and the
\* pool.
NextSnapshot ==
    \/ load
    \/ Tick
    \/ read_frame
    \/ reader_done
    \/ reject_empty_key
    \/ arm_G
    \/ arm_R_entries
    \/ arm_R_vals
    \/ arm_I_entries
    \/ arm_I_vals
    \/ arm_H_create
    \/ arm_H_lock
    \/ arm_H_iter
    \/ arm_H_write
    \/ arm_other
    \/ \E w \in Workers : sweep_start(w)
    \/ \E w \in Workers : sweep_scan(w)
    \/ \E w \in Workers : sweep_remove_entry(w)
    \/ \E w \in Workers : sweep_remove_val(w)

SpecSnapshot == Init /\ [][NextSnapshot]_vars

\* The threads of run_tasks with the pool and no signal: startup, the clock,
\* the buffer thread reading single frames, the pool and the tasks thread.
NextTimers ==
    \/ load
    \/ Tick
    \/ read_frame
    \/ reader_done
    \/ reject_empty_key
    \/ arm_G
    \/ arm_R_entries
    \/ arm_R_vals
    \/ arm_I_entries
    \/ arm_I_vals
    \/ arm_H
    \/ arm_other
    \/ \E w \in Workers : sweep_start(w)
    \/ \E w \in Workers : sweep_scan(w)
    \/ \E w \in Workers : sweep_remove_entry(w)
    \/ \E w \in Workers : sweep_remove_val(w)
    \/ tasks_sweep
    \/ tasks_wake

\* a step of handle_in after its prologue, or the end of the loop body
reader_runs ==
    \/ reader_done
    \/ reject_empty_key
    \/ arm_G
    \/ arm_R_entries
    \/ arm_R_vals
    \/ arm_I_entries
    \/ arm_I_vals
    \/ arm_H
    \/ arm_other

\* a step of pool worker w
worker_runs(w) ==
    \/ sweep_start(w)
    \/ sweep_scan(w)
    \/ sweep_remove_entry(w)
    \/ sweep_remove_val(w)

\* Every thread that can run does: main gets past load, time passes, the buffer
\* thread finishes the frame it has read, a pool worker takes a queued job and
\* finishes it, and the tasks thread runs and wakes.  That another frame
\* arrives on stdin is not assumed.
FairTimers ==
    /\ WF_vars(load)
    /\ WF_vars(Tick)
    /\ WF_vars(reader_runs)
    /\ \A w \in Workers : WF_vars(worker_runs(w))
    /\ WF_vars(tasks_sweep)
    /\ WF_vars(tasks_wake)

SpecTimers == Init /\ [][NextTimers]_vars /\ FairTimers

\* The pool with all its workers: startup, the clock, the buffer thread
\* reading single frames, and sweep jobs started by any idle worker.
NextPool ==
    \/ load
    \/ Tick
    \/ read_frame
    \/ reader_done
    \/ reject_empty_key
    \/ arm_G
    \/ arm_R_entries
    \/ arm_R_vals
    \/ arm_I_entries
    \/ arm_I_vals
    \/ arm_H
    \/ arm_other
    \/ \E w \in Workers : pool_start(w)
    \/ \E w \in Workers : sweep_scan(w)
    \/ \E w \in Workers : sweep_remove_entry(w)
    \/ \E w \in Workers : sweep_remove_val(w)

SpecPool == Init /\ [][NextPool]_vars

\* The locks: startup, the clock, the buffer thread reading single frames and
\* taking the mutex of `started` after each, the pool, and the tasks thread
\* taking its locks one at a time.  The signal thread is left out: handle_close
\* takes the cache guard first and the read lock of vals under it, as the
\* buffer thread does.
NextLocks ==
    \/ load
    \/ Tick
    \/ read_frame
    \/ reader_notify
    \/ reject_empty_key
    \/ arm_G
    \/ arm_R_entries
    \/ arm_R_vals
    \/ arm_I_entries
    \/ arm_I_vals
    \/ arm_H
    \/ arm_other
    \/ \E w \in Workers : sweep_start(w)
    \/ \E w \in Workers : sweep_scan(w)
    \/ \E w \in Workers : sweep_remove_entry(w)
    \/ \E w \in Workers : sweep_remove_val(w)
    \/ tasks_pass
    \/ tasks_run
    \/ tasks_wake

SpecLocks == Init /\ [][NextLocks]_vars

\* ------------------------------------------------------------ properties
\* no Insert, Remove or sweep is between its two map updates
quiescent ==
    /\ reader_pc \notin {"I_vals", "R_vals"}
    /\ \A w \in Workers : pool[w].pc # "rm_vals"

\* C1: whenever no Insert, Remove or sweep is part-way through its two map
\* updates, the raw-value map and the entry map hold the same keys.
C1_KeySetsAgree == quiescent => DOMAIN vals = DOMAIN entries

\* a step of the buffer thread that leaves position pc
reader_leaves(pc) == reader_pc = pc /\ reader_pc' # pc /\ ~exited'

\* C2: a Get of a key whose Insert was acknowledged, and that no Remove frame
\* removed, no later Insert overwrote and that has not expired, returns the
\* payload that Insert carried.
C2_InsertThenGet ==
    [][(/\ reader_leaves("call")
        /\ input.command = "G"
        /\ input.key \in DOMAIN acked
        /\ ~is_expired(acked[input.key].expires_at, now))
       => /\ Len(out') = 1
          /\ out'[1].data # <<>>
          /\ out'[1].data[1] = acked[input.key].value.payload]_vars

\* C3: when the process exits after handle_close saved successfully, the
\* file holds the record of every acknowledged Insert that was not removed
\* and has not expired.
C3_ShutdownKeepsAcked ==
    (exited /\ close_result = "ok")
    => \A k \in DOMAIN acked :
         ~is_expired(acked[k].expires_at, now)
         => \E i \in DOMAIN file.recs : file.recs[i] = Rec(k, acked[k].value)

C5_GetOutput ==
    [][(reader_leaves("call") /\ input.command = "G" /\ input.key # EmptyKey)
       => out' = <<IF input.key \in DOMAIN vals
                   THEN [lit |-> "", data |-> <<vals[input.key].payload>>]
                   ELSE OutG>>]_vars

\* C6: what an Insert stores for its key does not depend on the timestamp
\* bytes of the frame: a frame that differs in them only stores the same raw
\* value and the same entry.
C6_CallerTimestampIgnored ==
    reader_pc = "I_vals"
    => \A ts \in TsVals :
         LET other == [input.value EXCEPT !.ts = ts]
         IN /\ insert_value(other, timestamp) = insert_value(input.value, timestamp)
            /\ insert_entry(other, timestamp) = insert_entry(input.value, timestamp)

\* C7: a Get or Insert with the all-zero key writes exactly "E\n" and leaves
\* both maps and the save flag as they were; a Remove or a Halt with the
\* all-zero key is processed as with any key: the Remove goes through the R
\* arm, writes "R\n" and sets the save flag, the Halt runs clean_up and
\* writes nothing.
C7_EmptyKeyRejection ==
    [][/\ (reader_leaves("call") /\ input.key = EmptyKey)
          => CASE input.command \in {"G", "I"} ->
                    /\ out' = <<OutE>>
                    /\ reader_pc' \in {"done", "batch"}
                    /\ UNCHANGED <<vals, entries, save_flag>>
               [] input.command = "R" ->
                    /\ reader_pc' = "R_vals"
                    /\ vals_lock' = "reader"
                    /\ out' = <<>>
               [] input.command = "H" ->
                    /\ out' = <<>>
                    /\ \E outcome \in SaveOutcomes, order \in Orders(persisted(vals, now)) :
                         clean_up(outcome, order)
               [] OTHER -> out' = <<>> /\ UNCHANGED <<vals, entries, save_flag>>
       /\ (reader_leaves("R_vals") /\ input.key = EmptyKey)
          => out' = <<OutR>> /\ save_flag']_vars

C7_Witness == reader_pc = "done" /\ out = <<OutE>> /\ DOMAIN vals # {}

\* C8: neither map ever holds the all-zero key, and no save writes a record
\* with the all-zero key.
C8_EmptyKeyNeverStored ==
    /\ [](EmptyKey \notin DOMAIN vals /\ EmptyKey \notin DOMAIN entries)
    /\ [][file' # file
          => \A i \in DOMAIN file'.recs : file'.recs[i].key # EmptyKey]_vars

\* a file with an all-zero-key record was loaded, the maps are not empty, and
\* an all-zero-key frame was rejected
C8_Witness ==
    /\ main_pc = "run"
    /\ \E i \in DOMAIN file.recs : file.recs[i].key = EmptyKey
    /\ DOMAIN vals # {}
    /\ out = <<OutE>>

\* a map as it is without key k
without(m, k) == [x \in DOMAIN m \ {k} |-> m[x]]

\* C9: a Remove leaves its key in neither map and every other key as it was,
\* writes "R\n" and sets the save flag; when the key is absent the maps are
\* unchanged, so a second Remove of the key changes nothing.
C9_RemoveIdempotent ==
    [][/\ (reader_leaves("call") /\ input.command = "R")
          => /\ entries' = without(entries, input.key)
             /\ (input.key \notin DOMAIN entries => entries' = entries)
             /\ remove_entries(entries', input.key) = entries'
             /\ vals' = vals
       /\ reader_leaves("R_vals")
          => /\ vals' = without(vals, input.key)
             /\ input.key \notin DOMAIN entries'
             /\ (input.key \notin DOMAIN vals => vals' = vals)
             /\ map_remove(vals', input.key) = vals'
             /\ out' = <<OutR>>
             /\ save_flag']_vars

\* the R arm has removed the entry of a key that was present
C9_Witness ==
    /\ reader_pc = "R_vals"
    /\ input.key \in DOMAIN vals
    /\ input.key \notin DOMAIN entries

\* the keys of the entry map m that have expired at t
expired_keys(m, t) == {k \in DOMAIN m : is_expired(m[k].expires_at, t)}
restrict(m, S) == [x \in DOMAIN m \cap S |-> m[x]]

\* C10: a sweep that ran with no frame handled and no other sweep running
\* since it began has removed from both maps exactly the keys whose entry had
\* expires_at <= the sweep's now, left every other key and value as it was,
\* and a Get of a removed key finds nothing.
C10_SweepResult ==
    [][\A w \in Workers :
         (pool[w].pc # "idle" /\ pool'[w].pc = "idle" /\ ~exited' /\ swept # None)
         => LET gone == expired_keys(swept.entries, pool[w].now)
            IN /\ vals' = restrict(swept.vals, Keys \ gone)
               /\ entries' = restrict(swept.entries, Keys \ gone)
               /\ \A k \in gone : get_output(vals', k) = OutG]_vars

\* an undisturbed sweep has removed an expired key's entry and another key is
\* in both maps
C10_Witness ==
    /\ swept # None
    /\ \E w \in Workers :
         /\ pool[w].pc = "rm_vals"
         /\ Head(pool[w].marked) \notin DOMAIN entries
         /\ \E k \in DOMAIN vals \cap DOMAIN entries : k # Head(pool[w].marked)

\* C11: a key whose acknowledged Insert carried expiration offset 0 stays in
\* both maps until a Remove frame or another Insert of the key, whatever
\* sweeps run, and no save skips its raw value.
C11_NeverExpiring ==
    \A k \in DOMAIN acked :
       acked[k].expires_at = None
       => \/ reader_pc = "R_vals" /\ input.key = k
          \/ /\ k \in DOMAIN vals
             /\ k \in DOMAIN entries
             /\ ~save_skips(k, acked[k].value, now)

\* worker w's sweep ends in this step
sweep_ends(w) == pool[w].pc # "idle" /\ pool'[w].pc = "idle" /\ ~exited'

\* worker w's sweep ends, it ran undisturbed, and so did the sweep before it,
\* with no frame read in between
second_sweep_ends(w) == sweep_ends(w) /\ swept # None /\ prev_sweep # None

\* C12 as stated: of two sweeps run one after the other with no Insert, Remove
\* or load in between, the second removes nothing.
C12_SecondSweepRemovesNothing ==
    [][\A w \in Workers :
         second_sweep_ends(w) => vals' = swept.vals /\ entries' = swept.entries]_vars

\* the keys of the entry map m that expire after t1 and no later than t2
expiring_between(m, t1, t2) ==
    {k \in DOMAIN m : /\ m[k].expires_at # None
                      /\ t1 < m[k].expires_at[1]
                      /\ m[k].expires_at[1] <= t2}

\* C12 amended: of two sweeps run one after the other with no Insert, Remove
\* or load in between, the second removes exactly the keys that expired after
\* the first one's now and no later than its own; it removes nothing when the
\* two read the same now.
C12_SecondSweepRemovesNewlyExpired ==
    [][\A w \in Workers :
         second_sweep_ends(w)
         => LET gone == expiring_between(swept.entries, prev_sweep.now, pool[w].now)
            IN /\ vals' = restrict(swept.vals, Keys \ gone)
               /\ entries' = restrict(swept.entries, Keys \ gone)
               /\ (pool[w].now = prev_sweep.now
                   => vals' = swept.vals /\ entries' = swept.entries)]_vars

\* a sweep that removed a key has ended and the next one is scanning, both
\* undisturbed
C12_Witness ==
    /\ prev_sweep # None
    /\ swept # None
    /\ prev_sweep.gone # {}
    /\ \E w \in Workers : pool[w].pc = "scan"

\* clean_up is called in this step
save_runs == save_result = "none" /\ save_result' # "none"

\* C13: the save flag goes from set to clear only in a clean_up that returns
\* Ok; a clean_up that returns Err (create, write or flush failed) leaves
\* both maps and the save flag as they were.
C13_FlagAndSaveOutcome ==
    [][/\ (save_flag /\ ~save_flag') => (save_runs /\ save_result' \in {"ok", "short"})
       /\ (save_runs /\ save_result' \in {"ok", "short"}) => ~save_flag'
       /\ (save_runs /\ save_result' \in {"create_err", "write_err"})
          => UNCHANGED <<vals, entries, save_flag>>]_vars

\* a save failed after an Insert and the flag is still set
C13_Witness ==
    /\ save_result \in {"create_err", "write_err"}
    /\ save_flag
    /\ DOMAIN vals # {}

\* a raw value whose decoded expiration has passed at t
decoded_expired(value, t) ==
    value.off > 0 /\ created_at_of(value.ts, t) + value.off <= t

\* the keys of the raw-value map a save at t has to write
to_save(kv, t) == {k \in DOMAIN kv : k # EmptyKey /\ ~decoded_expired(kv[k], t)}

\* clean_up is called in this step and returns Ok
save_returns_ok == save_runs /\ save_result' \in {"ok", "short"}

\* C14: a save that returns Ok leaves a file that is exactly one record
\* key ++ raw value for each key of the raw-value map that is not the
\* all-zero key and whose decoded expiration has not passed, each once, in
\* some order, and nothing else.
C14_SaveContent ==
    [][save_returns_ok
       => \E order \in Orders(to_save(vals, now)) :
            file' = FileOf([i \in DOMAIN order |-> Rec(order[i], vals[order[i]])],
                           FALSE)]_vars

\* main calls cache.load() in this step
load_runs == main_pc = "load" /\ main_pc' = "run"

\* the whole records of file f that load at t keeps, by index
surviving(f, t) ==
    {i \in DOMAIN f.recs :
        f.recs[i].key # EmptyKey /\ ~decoded_expired(f.recs[i].value, t)}

\* the last surviving record of f with key k
last_surviving(f, t, k) ==
    CHOOSE i \in surviving(f, t) :
        /\ f.recs[i].key = k
        /\ \A j \in surviving(f, t) : f.recs[j].key = k => j <= i

\* C15: a load that read a file that is not empty leaves both maps with
\* exactly the keys of the whole records that have a non-zero key and are not
\* expired at load time; a trailing partial record counts for nothing; each
\* key has the raw value of its last such record, and the entry decoded from
\* it.
C15_LoadContent ==
    [][load_runs
       => LET keys == {file.recs[i].key : i \in surviving(file, now)}
          IN /\ (file.exists /\ (file.recs # <<>> \/ file.partial) /\ ~load_err')
                => /\ DOMAIN vals' = keys
                   /\ DOMAIN entries' = keys
                   /\ \A k \in keys :
                        LET value == file.recs[last_surviving(file, now, k)].value
                        IN /\ vals'[k] = value
                           /\ entries'[k].value = value.payload
                           /\ entries'[k].expires_at =
                                 IF value.off = 0 THEN None
                                 ELSE Some(created_at_of(value.ts, now) + value.off)
             /\ DOMAIN vals' = DOMAIN entries']_vars

\* a file with a trailing partial record was loaded and one of its whole
\* records was skipped
C15_Witness ==
    /\ main_pc = "run"
    /\ frames = 0
    /\ signal_pc = 0
    /\ file.partial
    /\ DOMAIN vals # {}
    /\ Len(file.recs) > Cardinality(DOMAIN vals)

\* the keys of the Store that have not expired at t, by their entries
live(kv, e, t) == {k \in DOMAIN kv : k \in DOMAIN e => ~is_expired(e[k].expires_at, t)}

\* C16: load of an absent or zero-length file returns Ok and leaves both maps
\* empty; a save that returns Ok when the Store holds no entry that has not
\* expired leaves a zero-length file, and load of that file returns Ok with
\* both maps empty.
C16_EmptyPersistence ==
    [][/\ (load_runs /\ (~file.exists \/ (file.recs = <<>> /\ ~file.partial)))
          => /\ vals' = EmptyMap
             /\ entries' = EmptyMap
             /\ ~load_result(file, now, TRUE).err
             /\ (~file.exists => ~load_err')
       /\ (save_returns_ok /\ live(vals, entries, now) = {})
          => /\ file' = FileOf(<<>>, FALSE)
             /\ LET r == load_result(file', now, TRUE)
                IN r.vals = EmptyMap /\ r.entries = EmptyMap /\ ~r.err]_vars

\* C17: a load of the file a save just wrote, with nothing else running,
\* gives exactly the (key, raw value) pairs that were in the Store and not
\* expired when the save began.
C17_RoundTrip ==
    [][save_returns_ok
       => load_result(file', now, TRUE).vals = restrict(vals, live(vals, entries, now))]_vars

\* handle_in returns in this step
handle_in_returns ==
    /\ reader_pc \in {"call", "I_vals", "R_vals"}
    /\ reader_pc' \in {"batch", "done"}
    /\ ~exited'

\* what a call of handle_in on the frame in hand has done when it returns,
\* whoever called it
frame_effect ==
    CASE rejects(input) ->
           out' = <<OutE>> /\ UNCHANGED <<vals, entries>>
      [] input.command = "G" /\ ~rejects(input) ->
           /\ out' = <<IF input.key \in DOMAIN vals THEN OutValue(vals[input.key])
                       ELSE OutG>>
           /\ UNCHANGED <<vals, entries>>
      [] input.command = "I" /\ ~rejects(input) ->
           /\ out' = <<OutI>>
           /\ vals' = map_insert(vals, input.key, input.value)
           /\ entries' = map_insert(entries, input.key,
                                    [value |-> input.value.payload,
                                     expires_at |-> IF input.value.off = 0 THEN None
                                                    ELSE Some(timestamp + input.value.off)])
      [] input.command = "R" ->
           /\ out' = <<OutR>>
           /\ vals' = without(vals, input.key)
           /\ entries' = without(entries, input.key)
      [] OTHER ->
           out' = <<>> /\ UNCHANGED <<vals, entries>>

C19_BatchSetsFlag ==
    [][(reader_pc = "batch" /\ reader_pc' = "done") => save_flag']_vars

\* a batch whose last frame was a Halt that saved has returned with the flag
\* set
C19_Witness ==
    /\ reader_pc = "done"
    /\ results > 0
    /\ save_result = "ok"
    /\ save_flag

handle_in_enters == reader_pc \in {"read", "batch"} /\ reader_pc' = "call" /\ ~exited'

\* C21: a frame whose opcode is none of G, I, R, H leaves the raw-value map,
\* the entry map, the save flag and the file as they were and writes nothing,
\* from the entry of handle_in to its return, with the all-zero key as with
\* any other.
C21_UnknownOpcode ==
    [][/\ (handle_in_enters /\ input'.command = "X")
          => UNCHANGED <<vals, entries, save_flag, file>> /\ out' = <<>>
       /\ (reader_leaves("call") /\ input.command = "X")
          => /\ UNCHANGED <<vals, entries, save_flag, file>>
             /\ out = <<>>
             /\ out' = <<>>
             /\ reader_pc' \in {"batch", "done"}]_vars

\* a frame read alone has been handled with nothing written, no save run and
\* the save flag clear, the Store holding keys: its opcode was unknown
C21_Witness ==
    /\ reader_pc = "done"
    /\ results = 0
    /\ out = <<>>
    /\ save_result = "none"
    /\ ~save_flag
    /\ DOMAIN vals # {}

\* C22: the call of handle_in that brings the operation counter to the
\* threshold queues a sweep and leaves the counter at zero; no other call
\* queues one; and the counter is never above the threshold.
C22_SweepThreshold ==
    /\ [][handle_in_enters
          => LET reaches == ops_since_invalidation + 1 = invalidation_threshold
             IN /\ reaches => (queued' = queued + 1 /\ ops_since_invalidation' = 0)
                /\ (queued' # queued) => reaches]_vars
    /\ [](ops_since_invalidation <= invalidation_threshold)

\* C23: whenever the save flag is set and the buffer thread waits for a frame,
\* a save is run sooner or later unless another frame arrives first: the
\* process saves of itself, with no frame and no signal.
C23_PeriodicPersistence ==
    (save_flag /\ reader_pc = "read" /\ ~exited)
    ~> (save_result # "none" \/ reader_pc # "read")

\* C24: an entry whose expires_at has passed is sooner or later in neither
\* map, whether or not another frame arrives.
C24_PeriodicInvalidation ==
    \A k \in Keys :
       (~exited /\ k \in DOMAIN entries /\ is_expired(entries[k].expires_at, now))
       ~> (k \notin DOMAIN vals /\ k \notin DOMAIN entries)

\* C25: every load that returns Ok schedules the initial sweep, an absent or
\* empty file included; and when handle_in is entered with the first frame,
\* load has returned and no sweep is waiting or running: the initial sweep is
\* over.
C25_StartupOrder ==
    [][/\ (load_runs /\ ~load_err') => queued' = queued + 1
       /\ (handle_in_enters /\ frames = 0)
          => /\ main_pc = "run"
             /\ queued = 0
             /\ \A w \in Workers : pool[w].pc = "idle"]_vars

\* C26: whenever no Insert, Remove or sweep is between its two map updates,
\* the entry of every key in both maps is the decode of the key's raw value:
\* the same payload, and expires_at the raw timestamp plus the raw offset, or
\* None when the offset is zero; and the entry is expired exactly when the
\* raw value, decoded as save decodes it, is expired.  Stated for the raw
\* values whose timestamp chrono accepts: for the others the decode falls
\* back to the time at which it is made.
C26_EntryIsDecodeOfRaw ==
    quiescent
    => \A k \in DOMAIN vals \cap DOMAIN entries :
         vals[k].ts <= ChronoMaxTs
         => /\ entries[k].value = vals[k].payload
            /\ entries[k].expires_at = expires_at_of(vals[k].ts, vals[k].off)
            /\ is_expired(entries[k].expires_at, now) <=> decoded_expired(vals[k], now)

\* no operation is in progress: load has returned, the buffer thread waits
\* for a frame, no sweep is queued or running and no signal is being handled
idle ==
    /\ main_pc = "run"
    /\ ~exited
    /\ reader_pc = "read"
    /\ queued = 0
    /\ \A w \in Workers : pool[w].pc = "idle"
    /\ signal_pc = 0

\* the pairs of the set S whose raw value has not expired at t
unexpired(S, t) == {p \in S : ~decoded_expired(p[2], t)}

\* C27: whenever the save flag is clear and no operation is in progress, the
\* pairs of the raw-value map that have not expired are the pairs, not
\* expired either, that the last save that returned Ok left in the file, or
\* that load kept when no save has returned Ok; also after a sweep has removed
\* keys since.
C27_DirtyFlagMeaning ==
    (idle /\ ~save_flag) => unexpired(pairs(vals), now) = unexpired(synced, now)

\* a frame whose call changes the Store: a Remove, or an Insert that is not
\* rejected
mutating(f) == f.command = "R" \/ (f.command = "I" /\ ~rejects(f))

\* C28: the call of handle_in for a Remove or an accepted Insert counts: the
\* operation counter goes up by one, or a sweep is queued and the counter
\* reset; the call for a Get, a rejected frame, a Halt or an unknown opcode
\* leaves the counter as it was and queues no sweep.
C28_OnlyMutatingCallsCount ==
    [][handle_in_enters
       => IF mutating(input')
          THEN \/ ops_since_invalidation' = ops_since_invalidation + 1
               \/ ops_since_invalidation' = 0 /\ queued' = queued + 1
          ELSE ops_since_invalidation' = ops_since_invalidation /\ queued' = queued]_vars

\* the step in which clean_up writes the buffer and returns
save_writes == saving # None /\ saving' = None /\ ~exited'

\* C29: from the moment clean_up takes the lock of vals to its return the
\* raw-value map is as it was when the lock was taken, whatever the pool does;
\* a save that wrote all of its buffer leaves one record for each key of that
\* map, with the value it had, except the keys clean_up skips; the save flag
\* is not set while a save runs, and a save that returns Ok has cleared it
\* before the lock is released.
C29_ConsistentSnapshot ==
    /\ [](saving # None => (vals = saving.snap /\ vals_lock = "save"))
    /\ [][/\ save_writes
             => /\ vals' = saving.snap
                /\ vals_lock = "save"
                /\ save_result' \in SaveOk => ~save_flag'
                /\ save_result' = "ok"
                   => /\ file_pairs(file') \subseteq pairs(saving.snap)
                      /\ Cardinality(file_pairs(file')) = Len(file'.recs)
                      /\ \A k \in DOMAIN saving.snap :
                           \/ <<k, saving.snap[k]>> \in file_pairs(file')
                           \/ save_skips(k, saving.snap[k], now)
          /\ (saving # None /\ save_flag') => save_flag]_vars

\* a save has put a record in its buffer and holds the lock of vals, while a
\* sweep that has removed an entry waits for the lock to remove the raw value
C29_Witness ==
    /\ saving # None
    /\ saving.buffer # <<>>
    /\ \E w \in Workers : pool[w].pc = "rm_vals" /\ Head(pool[w].marked) \in DOMAIN vals

\* C30: a sweep goes through with whatever the buffer thread does to its
\* keys meanwhile.  A scan that marked keys goes on to remove them; each
\* removal takes the marked key out of its map and nothing else, and leaves
\* the map as it is when the key is no longer there; after the removal of a
\* key the sweep goes on with the keys still marked, and ends after the last.
C30_SweepToleratesMismatch ==
    /\ [](\A w \in Workers : pool[w].pc \in {"rm_entries", "rm_vals"} => pool[w].marked # <<>>)
    /\ [][\A w \in Workers :
            /\ (pool[w].pc = "scan" /\ pool'[w].pc # "scan" /\ ~exited')
               => IF pool[w].marked = <<>> THEN pool'[w].pc = "idle"
                  ELSE pool'[w].pc = "rm_entries" /\ pool'[w].marked = pool[w].marked
            /\ (pool[w].pc = "rm_entries" /\ pool'[w] # pool[w] /\ ~exited')
               => LET k == Head(pool[w].marked)
                  IN /\ entries' = without(entries, k)
                     /\ k \notin DOMAIN entries => entries' = entries
                     /\ pool'[w].pc = "rm_vals"
                     /\ pool'[w].marked = pool[w].marked
            /\ (pool[w].pc = "rm_vals" /\ pool'[w] # pool[w] /\ ~exited')
               => LET k == Head(pool[w].marked)
                      rest == Tail(pool[w].marked)
                  IN /\ vals' = without(vals, k)
                     /\ k \notin DOMAIN vals => vals' = vals
                     /\ IF rest = <<>> THEN pool'[w].pc = "idle"
                        ELSE pool'[w].pc = "rm_entries" /\ pool'[w].marked = rest]_vars

\* a Remove frame has taken a key out of both maps after a sweep marked it,
\* and the sweep is between its two removals of that key
C30_Witness ==
    /\ reader_pc = "done"
    /\ out = <<OutR>>
    /\ \E w \in Workers :
         /\ pool[w].pc = "rm_vals"
         /\ Head(pool[w].marked) \notin DOMAIN vals
         /\ Head(pool[w].marked) \notin DOMAIN entries

\* the workers that are running a sweep job
in_flight == {w \in Workers : pool[w].pc # "idle"}

\* C31: at most one sweep is in flight at any time, however many sweeps the
\* threshold trigger and the load have scheduled
C31_OneSweepInFlight == Cardinality(in_flight) <= 1

\* the threads that keep a lock from one step to the next; a pool worker takes
\* the write lock of vals for one removal and holds nothing while it waits
LockHolders == {"reader", "signal", "tasks"}

\* who holds the mutex around `started`: looped_thread from the condvar to
\* its return
started_mutex == IF tasks_pc = "cache" THEN "tasks" ELSE "free"

\* the thread a lock is held by, or "free"
holder(l) ==
    IF l = "cache" THEN cache_mutex
    ELSE IF l = "vals" THEN (IF vals_lock = "save" THEN "reader" ELSE vals_lock)
    ELSE started_mutex

\* the lock the thread's next statement acquires, or "none": the buffer thread
\* at an arm of handle_in that locks vals or at lock.lock() after handle_in,
\* looped_thread at cache.lock(); handle_close runs under the cache guard from
\* its first step
wants(t) ==
    IF ~running THEN "none"
    ELSE IF t = "reader"
    THEN IF reader_pc = "done" THEN "started"
         ELSE IF /\ reader_pc = "call"
                 /\ ~rejects(input)
                 /\ input.command \in {"G", "R", "I", "H"}
              THEN "vals"
              ELSE "none"
    ELSE IF t = "tasks"
    THEN IF tasks_pc = "cache" THEN "cache" ELSE "none"
    ELSE "none"

\* the thread that holds the lock t is waiting for, or "nobody"
waits_on(t) ==
    IF wants(t) = "none" \/ holder(wants(t)) \in {"free", t} THEN "nobody"
    ELSE holder(wants(t))

\* t, the thread it waits on, the thread that one waits on ... n times over:
\* none of them can take a step
RECURSIVE chain(_, _)
chain(t, n) ==
    IF t = "nobody" THEN FALSE
    ELSE IF n = 0 THEN TRUE
    ELSE chain(waits_on(t), n - 1)

\* t waits for a lock that is never released: the chain of waiting threads
\* from t comes back on itself
waits_forever(t) == chain(t, Cardinality(LockHolders))

\* C32: deadlock freedom: no interleaving of the buffer thread, the pool's
\* sweeps, the shutdown handler and the tasks thread reaches a state in which
\* a thread waits for a lock that is never released, be it a thread that holds
\* locks or a pool worker waiting for the write lock of vals
C32_DeadlockFreedom ==
    /\ \A t \in LockHolders : ~waits_forever(t)
    /\ \A w \in Workers :
         (running /\ pool[w].pc = "rm_vals" /\ vals_lock # "free")
             => ~waits_forever(holder("vals"))

====
